---- MODULE Spec2Model ----
(***************************************************************************)
(* Model of the Ancore account contract (contracts/account/src/lib.rs):   *)
(* the instance storage (Owner, Nonce), the persistent session key         *)
(* registry, and the seven entry points of AncoreAccount.  Every entry     *)
(* point is one atomic invocation; the host discards the writes of an      *)
(* invocation that fails.                                                  *)
(***************************************************************************)
EXTENDS Integers, Sequences, FiniteSets, TLC

(* ---------------------------- bounds --------------------------------- *)

\* Largest number of successful execute invocations explored.
MaxNonce == 2

(* ---------------------------- input domains --------------------------- *)

\* Address values: candidate owners and invocation signers.
Addresses == {"A", "B"}

\* BytesN<32> session public keys.
PublicKeys == {"pk1", "pk2"}

\* u64 expiry timestamps handed to add_session_key.
Expiries == {0, 1000}

\* Vec<u32> permission lists handed to add_session_key.
PermLists == {<<>>, <<1, 1>>}

\* The sets of identities whose authorization an invocation can carry.
\* A session public key can sign an invocation as well as an address.
SignerSets == {{}, {"A"}, {"B"}, {"pk1"}}

\* Ledger timestamps (the host's current time) an invocation can run at.
\* No entry point reads the ledger time, so it is no part of the state.
LedgerTimes == {500, 2000}

\* A record is valid for authorization up to its expires_at, expired after it.
Expired(session_key, now) == now > session_key.expires_at

\* The nonce a caller of execute expects the account to be at: enough for a
\* match, current + 1, current - 1 and a repeat.
ExpectedNonces == {0, 1}

\* Contracts an execute call can name as `to`.
Targets == {"tTrue", "tVal", "tFail"}

(* ---------------------------- values ---------------------------------- *)

\* u64 values.  A value below 2^63 is held as itself; a value v from 2^63 up is
\* held as v - 2^64 (the same 64 bits read as a signed number), so that the
\* top of the range can be written: 2^64 - 1 is -1, 2^64 - 2 is -2.  Adding 1
\* to the held number is then the wrapping u64 addition, and it overflows
\* exactly at U64Max.
U64FromTop(k) == 0 - (k + 1)

U64Max == U64FromTop(0)

\* Unsigned order of two held u64 values.
U64Less(a, b) ==
    IF (a < 0) = (b < 0) THEN a < b ELSE b < 0

\* Option<T>: None is the empty set, Some(x) the singleton.
None == {}

Some(x) == {x}

Unwrap(opt) == CHOOSE x \in opt : TRUE

\* Result<T, ContractError> and the host's abort of the invocation.
Ok(v) == [kind |-> "ok", err |-> "", val |-> Some(v)]

Err(e) == [kind |-> "err", err |-> e, val |-> None]

Trap(e) == [kind |-> "trap", err |-> e, val |-> None]

ContractError ==
    {"AlreadyInitialized", "NotInitialized", "Unauthorized", "InvalidNonce",
     "SessionKeyNotFound", "SessionKeyExpired", "InsufficientPermission"}

SessionKey(public_key, expires_at, permissions) ==
    [public_key |-> public_key, expires_at |-> expires_at, permissions |-> permissions]

\* DataKey::Owner and DataKey::Nonce live in instance storage,
\* DataKey::SessionKey(pk) in persistent storage.
EmptyInstance == [Owner |-> None, Nonce |-> None]

EmptyPersistent == [pk \in PublicKeys |-> None]

(* ---------------------------- host primitives ------------------------- *)

\* A gate that accepts any authorization the invocation carries.
require_auth_any(address, signers) == signers # {}

\* Address::require_auth: passes iff the invocation carries that address's
\* authorization; otherwise the host aborts the invocation.
require_auth(address, signers) == address \in signers

\* What invoking `function` on contract `to` would do: abort, or return a Val.
InvokeContract(to) ==
    CASE to = "tTrue" -> Ok("true")
      [] to = "tVal"  -> Ok("v7")
      [] OTHER        -> Trap("Callee")

(* ---------------------------- entry points ---------------------------- *)
\* Each entry point maps the storage before the invocation (and its inputs)
\* to the storage after it and the result handed to the caller:
\* [inst, pers, res, dispatched], where dispatched is the sequence of
\* external calls the invocation made.

Outcome(inst, pers, res) ==
    [inst |-> inst, pers |-> pers, res |-> res, dispatched |-> <<>>]

\* initialize without the has(Owner) check: a later call overwrites.
initialize_overwrite(inst, pers, owner) ==
    Outcome([Owner |-> Some(owner), Nonce |-> Some(0)], pers, Ok("void"))

\* initialize that starts the counter at 1.
initialize_from_one(inst, pers, owner) ==
    IF inst.Owner # None
    THEN Outcome(inst, pers, Err("AlreadyInitialized"))
    ELSE Outcome([Owner |-> Some(owner), Nonce |-> Some(1)], pers, Ok("void"))

initialize(inst, pers, owner) ==
    IF inst.Owner # None
    THEN Outcome(inst, pers, Err("AlreadyInitialized"))
    ELSE Outcome([Owner |-> Some(owner), Nonce |-> Some(0)], pers, Ok("void"))

\* get_owner reporting the wrong error kind for an absent owner.
get_owner_wrong_kind(inst) ==
    IF inst.Owner = None THEN Err("Unauthorized") ELSE Ok(Unwrap(inst.Owner))

get_owner(inst) ==
    IF inst.Owner = None THEN Err("NotInitialized") ELSE Ok(Unwrap(inst.Owner))

\* get_nonce that insists on a stored counter.
get_nonce_strict(inst) ==
    IF inst.Nonce = None THEN Err("NotInitialized") ELSE Ok(Unwrap(inst.Nonce))

get_nonce(inst) ==
    Ok(IF inst.Nonce = None THEN 0 ELSE Unwrap(inst.Nonce))

\* execute that re-reads the counter it has just written and bumps it again.
execute_double_bump(inst, pers, signers, to) ==
    IF inst.Owner = None THEN Outcome(inst, pers, Err("NotInitialized"))
    ELSE IF ~(Unwrap(inst.Owner) \in signers)
    THEN Outcome(inst, pers, Trap("Auth"))
    ELSE Outcome([inst EXCEPT !.Nonce = Some(Unwrap(inst.Nonce) + 2)], pers, Ok("true"))

\* execute that consults the gate before it resolves the owner.
execute_auth_first(inst, pers, signers, to) ==
    IF signers = {} THEN Outcome(inst, pers, Trap("Auth"))
    ELSE IF inst.Owner = None THEN Outcome(inst, pers, Err("NotInitialized"))
    ELSE IF ~(Unwrap(inst.Owner) \in signers)
    THEN Outcome(inst, pers, Trap("Auth"))
    ELSE Outcome([inst EXCEPT !.Nonce = Some(Unwrap(inst.Nonce) + 1)], pers, Ok("true"))

\* execute whose gate also accepts the signature of a stored session key.
execute_session_auth(inst, pers, signers, to) ==
    IF inst.Owner = None THEN Outcome(inst, pers, Err("NotInitialized"))
    ELSE IF ~( \/ Unwrap(inst.Owner) \in signers
               \/ \E pk \in signers \cap PublicKeys : pers[pk] # None )
    THEN Outcome(inst, pers, Trap("Auth"))
    ELSE Outcome([inst EXCEPT !.Nonce = Some(Unwrap(inst.Nonce) + 1)], pers, Ok("true"))

\* execute(env, _to, _function, _args): the entry point has no expected_nonce
\* parameter and uses none of its arguments; it makes no external call.
execute(inst, pers, signers, to) ==
    LET owner == get_owner(inst) IN
    IF owner.kind # "ok" THEN Outcome(inst, pers, owner)
    ELSE IF ~require_auth(Unwrap(owner.val), signers)
    THEN Outcome(inst, pers, Trap("Auth"))
    ELSE LET current_nonce == Unwrap(get_nonce(inst).val) IN
         Outcome([inst EXCEPT !.Nonce = Some(current_nonce + 1)], pers, Ok("true"))

\* The same entry point in a build with overflow checks: `current_nonce + 1`
\* panics at u64::MAX and the host aborts the invocation.  (execute above is
\* the build without them: the addition wraps to 0.)
execute_checked(inst, pers, signers, to) ==
    IF /\ inst.Owner # None
       /\ require_auth(Unwrap(inst.Owner), signers)
       /\ Unwrap(get_nonce(inst).val) = U64Max
    THEN Outcome(inst, pers, Trap("Overflow"))
    ELSE execute(inst, pers, signers, to)

\* add_session_key that keeps a record already stored for the key.
add_session_key_keep(inst, pers, signers, public_key, expires_at, permissions) ==
    IF inst.Owner = None THEN Outcome(inst, pers, Err("NotInitialized"))
    ELSE IF ~(Unwrap(inst.Owner) \in signers)
    THEN Outcome(inst, pers, Trap("Auth"))
    ELSE IF pers[public_key] # None THEN Outcome(inst, pers, Ok("void"))
    ELSE Outcome(inst,
                 [pers EXCEPT ![public_key] =
                     Some(SessionKey(public_key, expires_at, permissions))],
                 Ok("void"))

\* add_session_key that refuses an expiry of 0 (a timestamp in the past).
add_session_key_validating(inst, pers, signers, public_key, expires_at, permissions) ==
    IF inst.Owner = None THEN Outcome(inst, pers, Err("NotInitialized"))
    ELSE IF ~(Unwrap(inst.Owner) \in signers)
    THEN Outcome(inst, pers, Trap("Auth"))
    ELSE IF expires_at = 0 THEN Outcome(inst, pers, Err("SessionKeyExpired"))
    ELSE Outcome(inst,
                 [pers EXCEPT ![public_key] =
                     Some(SessionKey(public_key, expires_at, permissions))],
                 Ok("void"))

\* add_session_key that skips the owner lookup and the gate on a fresh account.
add_session_key_no_owner(inst, pers, signers, public_key, expires_at, permissions) ==
    IF inst.Owner # None /\ ~(Unwrap(inst.Owner) \in signers)
    THEN Outcome(inst, pers, Trap("Auth"))
    ELSE Outcome(inst,
                 [pers EXCEPT ![public_key] =
                     Some(SessionKey(public_key, expires_at, permissions))],
                 Ok("void"))

add_session_key(inst, pers, signers, public_key, expires_at, permissions) ==
    LET owner == get_owner(inst) IN
    IF owner.kind # "ok" THEN Outcome(inst, pers, owner)
    ELSE IF ~require_auth(Unwrap(owner.val), signers)
    THEN Outcome(inst, pers, Trap("Auth"))
    ELSE LET session_key == SessionKey(public_key, expires_at, permissions) IN
         Outcome(inst, [pers EXCEPT ![public_key] = Some(session_key)], Ok("void"))

\* revoke_session_key that reports a missing record as an error.
revoke_session_key_strict(inst, pers, signers, public_key) ==
    IF inst.Owner = None THEN Outcome(inst, pers, Err("NotInitialized"))
    ELSE IF ~(Unwrap(inst.Owner) \in signers)
    THEN Outcome(inst, pers, Trap("Auth"))
    ELSE IF pers[public_key] = None
    THEN Outcome(inst, pers, Err("SessionKeyNotFound"))
    ELSE Outcome(inst, [pers EXCEPT ![public_key] = None], Ok("void"))

\* revoke_session_key that clears the whole registry.
revoke_session_key_all(inst, pers, signers, public_key) ==
    IF inst.Owner = None THEN Outcome(inst, pers, Err("NotInitialized"))
    ELSE IF ~(Unwrap(inst.Owner) \in signers)
    THEN Outcome(inst, pers, Trap("Auth"))
    ELSE Outcome(inst, [pk \in PublicKeys |-> None], Ok("void"))

revoke_session_key(inst, pers, signers, public_key) ==
    LET owner == get_owner(inst) IN
    IF owner.kind # "ok" THEN Outcome(inst, pers, owner)
    ELSE IF ~require_auth(Unwrap(owner.val), signers)
    THEN Outcome(inst, pers, Trap("Auth"))
    ELSE Outcome(inst, [pers EXCEPT ![public_key] = None], Ok("void"))

\* get_session_key that hides a record whose expiry is 0.
get_session_key_unexpired(pers, public_key) ==
    IF pers[public_key] # None /\ Unwrap(pers[public_key]).expires_at = 0
    THEN None
    ELSE pers[public_key]

\* Returns Option<SessionKey> directly (no Result).
get_session_key(pers, public_key) == pers[public_key]

(* ---------------------------- state ----------------------------------- *)

VARIABLES
    instance,    \* instance storage: [Owner, Nonce], each an Option
    persistent,  \* persistent storage: public key -> Option<SessionKey>
    last,        \* the latest invocation: its inputs, result and pre-state
    executed,    \* expected_nonce of every successful execute, in order
    first_owner  \* the owner named by the first initialize that succeeded

vars == <<instance, persistent, last, executed, first_owner>>

\* The record of one invocation.  Inputs an entry point does not take are "-".
Call(op, signers, arg, res, dispatched) ==
    [op |-> op, signers |-> signers, arg |-> arg, res |-> res,
     dispatched |-> dispatched,
     pre_inst |-> instance, pre_pers |-> persistent]

NoArg == [owner |-> "-", pk |-> "-", expires_at |-> 0, permissions |-> <<>>,
          to |-> "-", expected_nonce |-> 0]

Init ==
    /\ instance = EmptyInstance
    /\ persistent = EmptyPersistent
    /\ last = [op |-> "deploy", signers |-> {}, arg |-> NoArg, res |-> Ok("void"),
               dispatched |-> <<>>,
               pre_inst |-> EmptyInstance, pre_pers |-> EmptyPersistent]
    /\ executed = <<>>
    /\ first_owner = None

\* Commit an invocation's outcome.
Commit(op, signers, arg, out) ==
    /\ instance' = out.inst
    /\ persistent' = out.pers
    /\ last' = Call(op, signers, arg, out.res, out.dispatched)
    /\ first_owner' = IF op = "initialize" /\ out.res.kind = "ok" /\ first_owner = None
                      THEN Some(arg.owner)
                      ELSE first_owner

Initialize ==
    \E owner \in Addresses, signers \in SignerSets :
        /\ Commit("initialize", signers, [NoArg EXCEPT !.owner = owner],
                  initialize(instance, persistent, owner))
        /\ UNCHANGED executed

GetOwner ==
    /\ Commit("get_owner", {}, NoArg,
              Outcome(instance, persistent, get_owner(instance)))
    /\ UNCHANGED executed

GetNonce ==
    /\ Commit("get_nonce", {}, NoArg,
              Outcome(instance, persistent, get_nonce(instance)))
    /\ UNCHANGED executed

Execute ==
    \E signers \in SignerSets, to \in Targets, expected_nonce \in ExpectedNonces :
        \E out \in {execute(instance, persistent, signers, to),
                    execute_checked(instance, persistent, signers, to)} :
        /\ out.res.kind = "ok" => Len(executed) < MaxNonce
        /\ Commit("execute", signers,
                  [NoArg EXCEPT !.to = to, !.expected_nonce = expected_nonce], out)
        /\ executed' = IF out.res.kind = "ok"
                       THEN Append(executed, expected_nonce)
                       ELSE executed

AddSessionKey ==
    \E signers \in SignerSets, pk \in PublicKeys,
       expires_at \in Expiries, permissions \in PermLists :
        /\ Commit("add_session_key", signers,
                  [NoArg EXCEPT !.pk = pk, !.expires_at = expires_at,
                                !.permissions = permissions],
                  add_session_key(instance, persistent, signers, pk,
                                  expires_at, permissions))
        /\ UNCHANGED executed

RevokeSessionKey ==
    \E signers \in SignerSets, pk \in PublicKeys :
        /\ Commit("revoke_session_key", signers, [NoArg EXCEPT !.pk = pk],
                  revoke_session_key(instance, persistent, signers, pk))
        /\ UNCHANGED executed

GetSessionKey ==
    \E signers \in SignerSets, pk \in PublicKeys :
        /\ Commit("get_session_key", signers, [NoArg EXCEPT !.pk = pk],
                  Outcome(instance, persistent,
                          [kind |-> "ok", err |-> "",
                           val |-> get_session_key(persistent, pk)]))
        /\ UNCHANGED executed

Next ==
    \/ Initialize
    \/ GetOwner
    \/ GetNonce
    \/ Execute
    \/ AddSessionKey
    \/ RevokeSessionKey
    \/ GetSessionKey

Spec == Init /\ [][Next]_vars

\* An initialized account whose nonce has come within one execute of the top
\* of the u64 range; executed counts the executes from here on.
InitNearMax ==
    /\ \E owner \in Addresses :
         /\ instance = [Owner |-> Some(owner), Nonce |-> Some(U64FromTop(1))]
         /\ first_owner = Some(owner)
         /\ last = [op |-> "deploy", signers |-> {}, arg |-> NoArg,
                    res |-> Ok("void"), dispatched |-> <<>>,
                    pre_inst |-> [Owner |-> Some(owner), Nonce |-> Some(U64FromTop(1))],
                    pre_pers |-> EmptyPersistent]
    /\ persistent = EmptyPersistent
    /\ executed = <<>>

SpecNearMax == InitNearMax /\ [][Next]_vars

(* ---------------------------- type sanity ----------------------------- *)

TypeOK ==
    /\ instance.Owner \in {None} \cup {Some(a) : a \in Addresses}
    /\ instance.Nonce \in {None} \cup {Some(n) : n \in 0 .. MaxNonce}
    /\ \A pk \in PublicKeys :
        persistent[pk] \in {None} \cup
            {Some(SessionKey(pk, t, p)) : t \in Expiries, p \in PermLists}
    /\ Len(executed) <= MaxNonce

(* ---------------------------- reading a call -------------------------- *)

\* The value get_nonce() reports on a given instance storage.
NonceOf(inst) == Unwrap(get_nonce(inst).val)

\* The latest invocation ran on an initialized account.
WasInitialized == last.pre_inst.Owner # None

\* The latest invocation carried the stored owner's authorization.
OwnerAuthorized == WasInitialized /\ Unwrap(last.pre_inst.Owner) \in last.signers

\* The latest invocation left Owner, Nonce and every SessionKey record as they were.
StorageUnchanged == instance = last.pre_inst /\ persistent = last.pre_pers

OwnerProtected == {"execute", "add_session_key", "revoke_session_key"}

(* ---------------------------- C1 -------------------------------------- *)

\* C1: on an initialized account with an owner-authorized caller, an execute
\* whose expected_nonce differs from the stored nonce fails with InvalidNonce
\* and leaves the stored nonce unchanged.
C1_ReplayRejection ==
    ( /\ last.op = "execute"
      /\ OwnerAuthorized
      /\ last.arg.expected_nonce # NonceOf(last.pre_inst) )
    => /\ last.res = Err("InvalidNonce")
       /\ instance.Nonce = last.pre_inst.Nonce

(* ---------------------------- C2 -------------------------------------- *)

\* C2: the successful executes carry the expected_nonce values 0, 1, 2, ...
\* in order, each value at most once.
C2_ExactlyOnce ==
    \A i \in 1 .. Len(executed) : executed[i] = i - 1

(* ---------------------------- C3 -------------------------------------- *)

\* The latest invocation was an owner-protected entry point called on an
\* initialized account without the owner's authorization.
DeniedCall ==
    /\ last.op \in OwnerProtected
    /\ WasInitialized
    /\ ~OwnerAuthorized

C5_FailedDispatchKeepsNonce ==
    ( /\ last.op = "execute"
      /\ OwnerAuthorized
      /\ last.arg.expected_nonce = NonceOf(last.pre_inst)
      /\ InvokeContract(last.arg.to).kind # "ok" )
    => /\ last.res.kind # "ok"
       /\ instance.Nonce = last.pre_inst.Nonce
       /\ NonceOf(instance) = last.arg.expected_nonce

(* ---------------------------- C6 -------------------------------------- *)

\* C6: initialize on an account that already has an owner fails with
\* AlreadyInitialized, whatever owner it names, and leaves the stored owner
\* and the stored nonce unchanged.
C6_SingleShotInitialize ==
    (last.op = "initialize" /\ WasInitialized)
    => /\ last.res = Err("AlreadyInitialized")
       /\ instance.Owner = last.pre_inst.Owner
       /\ instance.Nonce = last.pre_inst.Nonce

\* A second initialize naming another owner, after a nonce was consumed.
C6_Witness ==
    /\ last.op = "initialize"
    /\ WasInitialized
    /\ Some(last.arg.owner) # last.pre_inst.Owner
    /\ NonceOf(last.pre_inst) > 0

(* ---------------------------- C7 -------------------------------------- *)

\* C7: after a successful add_session_key(pk, t, perms), get_session_key(pk)
\* returns exactly {pk, t, perms}; after a successful revoke_session_key(pk),
\* get_session_key(pk) returns empty.
C7_SessionKeyRoundTrip ==
    /\ (last.op = "add_session_key" /\ last.res.kind = "ok")
       => get_session_key(persistent, last.arg.pk) =
              Some(SessionKey(last.arg.pk, last.arg.expires_at, last.arg.permissions))
    /\ (last.op = "revoke_session_key" /\ last.res.kind = "ok")
       => get_session_key(persistent, last.arg.pk) = None

\* A successful add over a record that held other values for the same key.
C7_Witness ==
    /\ last.op = "add_session_key"
    /\ last.res.kind = "ok"
    /\ last.pre_pers[last.arg.pk] # None
    /\ last.pre_pers[last.arg.pk] # persistent[last.arg.pk]

(* ---------------------------- C8 -------------------------------------- *)

\* C8: a successful execute has invoked the target `to` and returns to its
\* caller the value that call returned.
C8_ReturnsCalleeResult ==
    (last.op = "execute" /\ last.res.kind = "ok")
    => /\ last.dispatched = <<last.arg.to>>
       /\ last.res = InvokeContract(last.arg.to)

(* ---------------------------- C9 -------------------------------------- *)

\* C9: on an uninitialized account initialize(owner) succeeds whatever
\* authorization the invocation carries, and afterwards get_owner() returns
\* that owner and get_nonce() returns 0.
C9_InitializeStoresOwner ==
    (last.op = "initialize" /\ ~WasInitialized)
    => /\ last.res.kind = "ok"
       /\ get_owner(instance) = Ok(last.arg.owner)
       /\ instance.Nonce = Some(0)
       /\ get_nonce(instance) = Ok(0)

\* A first initialize that carried no authorization at all.
C9_Witness ==
    /\ last.op = "initialize"
    /\ ~WasInitialized
    /\ last.signers = {}
    /\ instance.Owner = Some(last.arg.owner)

(* ---------------------------- C10 ------------------------------------- *)

\* C10: before initialization get_owner, execute, add_session_key and
\* revoke_session_key each fail with NotInitialized and write nothing.
C10_NotInitialized ==
    ( /\ last.op \in OwnerProtected \cup {"get_owner"}
      /\ ~WasInitialized )
    => /\ last.res = Err("NotInitialized")
       /\ StorageUnchanged
       /\ instance = EmptyInstance

\* add_session_key called on the fresh account by a signer.
C10_Witness ==
    /\ last.op = "add_session_key"
    /\ ~WasInitialized
    /\ last.signers # {}
    /\ last.res.kind = "err"

(* ---------------------------- C11 ------------------------------------- *)

\* C11: the owner is stored if and only if an initialize has succeeded, and
\* the stored owner is the one that initialize named: no later invocation
\* changes or removes it.
C11_OwnerImmutable ==
    /\ instance.Owner = first_owner
    /\ WasInitialized => instance.Owner = last.pre_inst.Owner
    /\ (instance.Owner # None) =>
           get_owner(instance) = Ok(Unwrap(first_owner))

\* A later initialize naming another owner, after session keys and executes.
C11_Witness ==
    /\ first_owner # None
    /\ last.op = "initialize"
    /\ Some(last.arg.owner) # first_owner
    /\ Len(executed) > 0
    /\ \E pk \in PublicKeys : persistent[pk] # None

(* ---------------------------- C12 ------------------------------------- *)

\* C12: get_nonce never fails and writes nothing; it returns the stored nonce
\* when one is stored and 0 when none was ever written.
C12_GetNonceTotal ==
    last.op = "get_nonce"
    => /\ last.res.kind = "ok"
       /\ StorageUnchanged
       /\ last.res.val = IF last.pre_inst.Nonce = None
                         THEN Some(0)
                         ELSE last.pre_inst.Nonce

\* get_nonce called on the account before any initialize.
C12_Witness ==
    /\ last.op = "get_nonce"
    /\ last.pre_inst.Nonce = None
    /\ ~WasInitialized
    /\ last.res = Ok(0)

(* ---------------------------- C13 ------------------------------------- *)

SignedBySessionKey ==
    \E pk \in last.signers \cap PublicKeys : last.pre_pers[pk] # None

\* ... and that record was unexpired at some ledger time and had permissions.
SignedByValidSessionKey ==
    \E pk \in last.signers \cap PublicKeys :
        /\ last.pre_pers[pk] # None
        /\ \E now \in LedgerTimes : ~Expired(Unwrap(last.pre_pers[pk]), now)
        /\ Unwrap(last.pre_pers[pk]).permissions # <<>>

SessionKeyErrors == {"SessionKeyNotFound", "SessionKeyExpired", "InsufficientPermission"}

\* C14: a stored session key authorizes nothing - an owner-protected
\* invocation signed by it, and not by the owner, is rejected and writes
\* nothing - and no entry point returns SessionKeyNotFound, SessionKeyExpired
\* or InsufficientPermission.
C14_OwnerOnlyGate ==
    /\ (DeniedCall /\ SignedBySessionKey)
       => (last.res.kind # "ok" /\ StorageUnchanged)
    /\ last.res.err \notin SessionKeyErrors

\* An execute signed only by a stored, unexpired session key with permissions.
C14_Witness ==
    /\ DeniedCall
    /\ last.op = "execute"
    /\ SignedByValidSessionKey

(* ---------------------------- C15 ------------------------------------- *)

\* C15: revoke_session_key by the authorized owner on a key that has no record
\* succeeds and leaves the registry, the owner and the nonce unchanged; and a
\* second revoke of a key just revoked gives the same state as the first.
C15_RevokeAbsentIsNoOp ==
    (last.op = "revoke_session_key" /\ OwnerAuthorized)
    => /\ last.res = Ok("void")
       /\ last.pre_pers[last.arg.pk] = None => StorageUnchanged
       /\ LET again == revoke_session_key(instance, persistent,
                                          last.signers, last.arg.pk)
          IN /\ again.res = Ok("void")
             /\ again.inst = instance
             /\ again.pers = persistent

\* The owner revokes a key that has no record while another key has one.
C15_Witness ==
    /\ last.op = "revoke_session_key"
    /\ OwnerAuthorized
    /\ last.pre_pers[last.arg.pk] = None
    /\ \E pk \in PublicKeys : persistent[pk] # None
    /\ NonceOf(instance) > 0

(* ---------------------------- C16 ------------------------------------- *)

\* C16: add_session_key by the authorized owner always succeeds, whatever
\* record the key already has and whatever expires_at and permissions it is
\* given; the key's record becomes exactly the new one and the records of all
\* other keys stay as they were.
C16_AddOverwrites ==
    (last.op = "add_session_key" /\ OwnerAuthorized)
    => /\ last.res = Ok("void")
       /\ persistent[last.arg.pk] =
              Some(SessionKey(last.arg.pk, last.arg.expires_at, last.arg.permissions))
       /\ \A pk \in PublicKeys \ {last.arg.pk} : persistent[pk] = last.pre_pers[pk]

\* The owner replaces a record by one that is expired at every ledger time and
\* lists a permission twice, while another key has a record.
C16_Witness ==
    /\ last.op = "add_session_key"
    /\ OwnerAuthorized
    /\ last.pre_pers[last.arg.pk] # None
    /\ Unwrap(last.pre_pers[last.arg.pk]).expires_at # last.arg.expires_at
    /\ Unwrap(last.pre_pers[last.arg.pk]).permissions # last.arg.permissions
    /\ \A now \in LedgerTimes : Expired(Unwrap(persistent[last.arg.pk]), now)
    /\ last.arg.permissions = <<1, 1>>
    /\ \E pk \in PublicKeys \ {last.arg.pk} : persistent[pk] # None

(* ---------------------------- C17 ------------------------------------- *)

\* C17: get_session_key never fails, whoever signs and whether or not the
\* account is initialized; it writes nothing and returns the record stored for
\* the key - expired or not - or empty when there is none.
C17_GetSessionKeyPure ==
    last.op = "get_session_key"
    => /\ last.res.kind = "ok"
       /\ StorageUnchanged
       /\ last.res.val = last.pre_pers[last.arg.pk]

\* An unsigned lookup that returns a record expired at every ledger time.
C17_Witness ==
    /\ last.op = "get_session_key"
    /\ last.signers = {}
    /\ last.res.val # None
    /\ \A now \in LedgerTimes : Expired(Unwrap(last.res.val), now)

\* An unsigned lookup on the account before any initialize returns empty.
C17_WitnessFresh ==
    /\ last.op = "get_session_key"
    /\ ~WasInitialized
    /\ last.res.val = None

(* ---------------------------- C18 ------------------------------------- *)

\* C18: a successful execute changes only Nonce; a successful add_session_key
\* or revoke_session_key changes only the record of its own public key.
C18_FrameSeparation ==
    /\ (last.op = "execute" /\ last.res.kind = "ok")
       => /\ instance.Owner = last.pre_inst.Owner
          /\ persistent = last.pre_pers
    /\ (last.op \in {"add_session_key", "revoke_session_key"} /\ last.res.kind = "ok")
       => /\ instance = last.pre_inst
          /\ \A pk \in PublicKeys \ {last.arg.pk} : persistent[pk] = last.pre_pers[pk]

\* A successful revoke of a stored key while the other key has a record and
\* nonces have been consumed.
C18_Witness ==
    /\ last.op = "revoke_session_key"
    /\ last.res.kind = "ok"
    /\ last.pre_pers[last.arg.pk] # None
    /\ \E pk \in PublicKeys \ {last.arg.pk} : persistent[pk] # None
    /\ NonceOf(instance) > 0

(* ---------------------------- C19 ------------------------------------- *)

\* C19: Nonce is stored exactly when Owner is, and a SessionKey record is
\* stored only when Owner is.
C19_NoStateWithoutOwner ==
    /\ (instance.Nonce # None) <=> (instance.Owner # None)
    /\ (\E pk \in PublicKeys : persistent[pk] # None) => instance.Owner # None

\* An account with an owner, a consumed nonce and a stored session key.
C19_Witness ==
    /\ instance.Owner # None
    /\ instance.Nonce # None
    /\ NonceOf(instance) > 0
    /\ \E pk \in PublicKeys : persistent[pk] # None

(* ---------------------------- C20 ------------------------------------- *)

\* C20: an execute invoked by the owner while the stored nonce is 2^64 - 1
\* fails and leaves the nonce at 2^64 - 1; it never leaves a stored nonce
\* smaller than before.
C20_NoWrapAtMax ==
    ( /\ last.op = "execute"
      /\ OwnerAuthorized
      /\ last.pre_inst.Nonce = Some(U64Max) )
    => /\ last.res.kind # "ok"
       /\ instance.Nonce = Some(U64Max)
       /\ ~U64Less(NonceOf(instance), NonceOf(last.pre_inst))

====
